---- MODULE Spec2Model ----
(***************************************************************************)
(* Model of app/upload_tts_to_anki.py: main() loads every *.json file of   *)
(* the input directory into one merged list, process_items() walks the     *)
(* list (TTS, media upload, note create/update through AnkiConnect) and    *)
(* write_back_results() writes the pieces out again.                       *)
(***************************************************************************)
EXTENDS Integers, Sequences, FiniteSets, TLC

\* ---------------------------------------------------------------- bounds
MaxItems == 3      \* records over all input files together
MaxFiles == 2      \* input files
MaxRuns == 2       \* invocations of main(), one after the other
MaxFaults == 1     \* external calls / file operations that raise, over all runs

\* ---------------------------------------------------------------- values
\* A field that is missing or empty (falsy in Python) is "" / <<>>.
NoAudio == <<>>
NoNote == [kind |-> "none", n |-> 0, s |-> ""]
RealNote(n) == [kind |-> "real", n |-> n, s |-> ""]
DefaultTags == "dflt"

\* english texts are character sequences so that str.strip() can be modelled
Strip(s) ==
  LET idxs == {i \in 1..Len(s) : s[i] # " "}
  IN  IF idxs = {} THEN <<>>
      ELSE LET lo == CHOOSE i \in idxs : \A j \in idxs : i <= j
               hi == CHOOSE i \in idxs : \A j \in idxs : j <= i
           IN  SubSeq(s, lo, hi)

\* f"idx{idx}" for the 0-based position idx
IdxNames == <<"idx0", "idx1", "idx2", "idx3", "idx4", "idx5", "idx6", "idx7">>

\* The records the input files are drawn from.
RecSkip == [id |-> "s0", chinese |-> "",   english |-> <<"a">>,      tags |-> "",
             audio |-> NoAudio, note |-> NoNote]
RecFresh == [id |-> "s1", chinese |-> "c1", english |-> <<"a">>,      tags |-> "t",
             audio |-> NoAudio, note |-> NoNote]
RecTwin == [id |-> "",   chinese |-> "c1", english |-> <<"a", " ">>, tags |-> "",
             audio |-> NoAudio, note |-> NoNote]
RecDone == [id |-> "s3", chinese |-> "c2", english |-> <<"b">>,      tags |-> "t",
             audio |-> <<"old", "mp3">>, note |-> RealNote(1)]
Recs == {RecSkip, RecFresh, RecTwin, RecDone}

\* The note the remote collection may hold before the first run.
PreNote == [ID |-> "s1", chinese |-> "c1", english |-> <<"z">>, sound |-> NoAudio,
            tags |-> "t"]

\* ---------------------------------------------------------------- files
Absent == [kind |-> "absent", data |-> <<>>]
ListFile(d) == [kind |-> "list", data |-> d]
Truncated == [kind |-> "bad", data |-> <<>>]
NotList == [kind |-> "notlist", data |-> <<>>]

InPath(k) == <<"in", k>>
TempCombined == <<"combined", 0>>
OutPath == <<"out", 0>>
with_suffix(p, suffix) == <<p[1] \o suffix, p[2]>>

InputDirPaths ==
  {with_suffix(InPath(k), s) : k \in 1..MaxFiles, s \in {"", ".bak", ".dryrun"}}
TempDirPaths ==
  {with_suffix(p, s) : p \in {TempCombined, OutPath}, s \in {"", ".bak", ".dryrun"}}
Paths == InputDirPaths \cup TempDirPaths

\* sorted(in_path.glob("*.json")): x.bak.json < x.dryrun.json < x.json
SuffixOrder == <<".bak", ".dryrun", "">>
GlobSorted(f) ==
  LET all == [i \in 1..(3 * MaxFiles) |->
                with_suffix(InPath(((i - 1) \div 3) + 1), SuffixOrder[((i - 1) % 3) + 1])]
  IN  SelectSeq(all, LAMBDA p : f[p].kind # "absent")

VARIABLES
  fs,          \* path -> file content
  tmpMp3,      \* mp3 files lying in the temp directory
  notes,       \* the remote collection: note id -> fields (ids are 1..Len)
  media,       \* file names stored in the remote media folder
  pc, run, dry,
  lastRun,     \* number of invocations of main() in this behaviour
  env,         \* config.yml and the input directory, as main() finds them
  items,       \* process_items: the list being processed
  provenance,  \* main: (src, start, end) per input file
  idx,         \* process_items: 1-based position of the loop
  updated,     \* process_items: updated
  processed,   \* main: processed
  wb,          \* write_back_results: 1-based position in provenance
  faults,      \* failures injected so far
  outcome,     \* per record of this run: what the loop body did
  slept,       \* per record of this run: calls of time.sleep
  calls,       \* per run: external calls issued
  ioLog,       \* per run: renames and writes of process_items' save and write_back_results
  preFs,       \* fs when the run started
  preRemote,   \* notes and media when the run started
  loaded,      \* the list as main() loaded it in this run
  status,      \* how the last finished run ended
  prev         \* summary of the run before this one

vars == <<fs, tmpMp3, notes, media, pc, run, lastRun, env, dry, items, provenance, idx, updated,
          processed, wb, faults, outcome, slept, calls, ioLog, preFs, preRemote, loaded,
          status, prev>>

NoCalls == [tts |-> 0, store |-> 0, find |-> 0, info |-> 0, add |-> 0, upd |-> 0]
NoPrev ==
  [ran |-> FALSE, dry |-> FALSE, status |-> "none", outcome |-> <<>>, items |-> <<>>,
   loaded |-> <<>>]

\* ---------------------------------------------------------------- load
RECURSIVE LoadFrom(_, _, _, _, _)
\* the loop of load_input_jsons over the sorted files
LoadFrom(f, files, i, combined, prov) ==
  IF i > Len(files) THEN <<combined, prov>>
  ELSE LET data == f[files[i]].data
           start == Len(combined)
           end == start + Len(data)
       IN  LoadFrom(f, files, i + 1, combined \o data,
                    Append(prov, <<files[i], start, end>>))

\* load_input_jsons without "idx += len(data)": every range starts at 0
load_input_jsons_noidx(f) ==
  LET r == LoadFrom(f, GlobSorted(f), 1, <<>>, <<>>)
  IN  <<r[1], [k \in 1..Len(r[2]) |-> <<r[2][k][1], 0, r[2][k][3] - r[2][k][2]>>]>>

load_input_jsons(f) == LoadFrom(f, GlobSorted(f), 1, <<>>, <<>>)

\* items[start:end]
Slice(s, start, end) == SubSeq(s, start + 1, end)

\* main: tags defaulted when missing
DefaultTagsOf(s) ==
  [i \in 1..Len(s) |-> IF s[i].tags = "" THEN [s[i] EXCEPT !.tags = DefaultTags] ELSE s[i]]

SeqsUpTo(S, n) == UNION {[1..m -> S] : m \in 0..n}

\* A setup: config.yml ("ok", "nokeys": a required key missing, "absent"), whether
\* the input directory exists, which input file (0: none) holds a JSON value that is
\* no list, and whether an earlier run left its output in the temp directory.
OkSetup == [config |-> "ok", dir |-> TRUE, notlist |-> 0, left |-> FALSE]
Setups ==
  [config : {"ok", "nokeys", "absent"}, dir : BOOLEAN, notlist : 0..MaxFiles,
   left : BOOLEAN]

InitGen(nfs, runs, setups) ==
  \E c \in SeqsUpTo(Recs, MaxItems), nf \in nfs, su \in setups :
  \E cut \in [1..nf -> 0..Len(c)] :
    /\ \A k \in 1..nf : (k > 1 => cut[k - 1] <= cut[k]) /\ (k = nf => cut[k] = Len(c))
    /\ nf = 0 => c = <<>>
    /\ ~su.dir => nf = 0
    /\ su.notlist <= nf
    /\ env = [config |-> su.config, dir |-> su.dir]
    /\ fs = [p \in Paths |->
               IF p[1] = "in" /\ p[2] <= nf
               THEN IF p[2] = su.notlist THEN NotList
                    ELSE ListFile(SubSeq(c, (IF p[2] = 1 THEN 0 ELSE cut[p[2] - 1]) + 1,
                                         cut[p[2]]))
               ELSE IF su.left /\ p = OutPath THEN ListFile(<<>>)
               ELSE Absent]
    /\ tmpMp3 = {}
    /\ notes \in {<<>>, <<PreNote>>}
    /\ media = {}
    /\ pc = "idle" /\ run = 0 /\ lastRun = runs /\ dry = FALSE
    /\ items = <<>> /\ provenance = <<>> /\ idx = 1 /\ updated = FALSE
    /\ processed = <<>> /\ wb = 1 /\ faults = 0
    /\ outcome = <<>> /\ slept = <<>> /\ calls = NoCalls /\ ioLog = <<>>
    /\ preFs = fs /\ preRemote = [notes |-> notes, media |-> media]
    /\ loaded = <<>> /\ status = "none" /\ prev = NoPrev

\* The state before the first run: nf input files holding at most MaxItems records
\* together, the temp directory empty, and `runs` invocations of main() to come.
InitOf(nfs, runs) == InitGen(nfs, runs, {OkSetup})

Init == InitOf(0..MaxFiles, MaxRuns)

\* one invocation of main() over one input file
InitOneRun == InitOf({1}, 1)

\* one invocation of main() over any input directory
InitLoad == InitOf(0..MaxFiles, 1)

\* one invocation of main() over any input directory and any setup
InitSetup == InitGen(0..MaxFiles, 1, Setups)

\* any number of invocations of main() without --dry over one input file, the
\* collection empty before the first
InitEmptyStore == InitOf({1}, MaxRuns) /\ notes = <<>>

\* ---------------------------------------------------------------- main: setup
\* main as if load_input_jsons checked nothing
SetupOk_nolistcheck(e, f) == e.config = "ok"

\* main lines 325-344 run through: load_config finds the file (line 24), the required
\* keys are there (line 337), the input directory exists (line 34) and every input
\* file parses to a list (lines 41-43)
SetupOk(e, f) ==
  /\ e.config = "ok"
  /\ e.dir
  /\ \A i \in 1..Len(GlobSorted(f)) : f[GlobSorted(f)[i]].kind = "list"

\* main raises in lines 325-344; nothing after line 344 is executed
SetupFail ==
  /\ pc = "idle" /\ run < lastRun
  /\ ~SetupOk(env, fs)
  /\ run' = run + 1
  /\ status' = "setup_error"
  /\ preFs' = fs
  /\ preRemote' = [notes |-> notes, media |-> media]
  /\ items' = <<>> /\ provenance' = <<>> /\ loaded' = <<>> /\ processed' = <<>>
  /\ outcome' = <<>> /\ slept' = <<>> /\ calls' = NoCalls /\ ioLog' = <<>>
  /\ idx' = 1 /\ wb' = 1 /\ updated' = FALSE
  /\ prev' = IF run = 0 THEN NoPrev
             ELSE [ran |-> TRUE, dry |-> dry, status |-> status, outcome |-> outcome,
                   items |-> items, loaded |-> loaded]
  /\ UNCHANGED <<fs, tmpMp3, notes, media, pc, lastRun, env, dry, faults>>

\* ---------------------------------------------------------------- main, up to the loop
\* main() lines 344-363 and process_items() lines 213-222
StartRun ==
  /\ pc = "idle" /\ run < lastRun
  /\ SetupOk(env, fs)
  /\ \E d \in BOOLEAN :
     LET ld == load_input_jsons(fs)
         its == DefaultTagsOf(ld[1])
     IN  /\ dry' = d
         /\ provenance' = ld[2]
         /\ loaded' = ld[1]
         /\ items' = its
         /\ fs' = [p \in Paths |->
                     IF p = TempCombined THEN ListFile(its)
                     ELSE IF p \in TempDirPaths THEN Absent
                     ELSE fs[p]]
         /\ tmpMp3' = {}
         /\ preFs' = fs
         /\ preRemote' = [notes |-> notes, media |-> media]
         /\ outcome' = [i \in 1..Len(its) |-> "pending"]
         /\ slept' = [i \in 1..Len(its) |-> 0]
  /\ run' = run + 1
  /\ pc' = "loop" /\ idx' = 1 /\ updated' = FALSE /\ wb' = 1
  /\ processed' = <<>> /\ calls' = NoCalls /\ ioLog' = <<>>
  /\ status' = "running"
  /\ prev' = IF run = 0 THEN NoPrev
             ELSE [ran |-> TRUE, dry |-> dry, status |-> status, outcome |-> outcome,
                   items |-> items, loaded |-> loaded]
  /\ UNCHANGED <<notes, media, faults, lastRun, env>>

\* main() without --dry: args.dry is False (lines 315-317, 378)
StartRealRun == StartRun /\ ~dry'

\* ---------------------------------------------------------------- process_items: one record
\* it.get("id") or f"idx{idx}", for the record at 1-based position i
item_id(it, i) == IF it.id # "" THEN it.id ELSE IdxNames[i]

\* safe_filename(s): a name fixed by s (alphanumeric prefix and sha1 of s)
safe_filename(s) == <<s, "mp3">>

\* a placeholder that is the empty string
DryNote_empty(id) == NoNote

\* f"dry_run_{item_id}"
DryNote(id) == [kind |-> "dry", n |-> 0, s |-> "dry_run_" \o id]

needs_audio(it) == it.audio = NoAudio

\* fname of the loop body
FnameOf(it, i) ==
  IF needs_audio(it) THEN safe_filename(item_id(it, i) \o "_" \o it.chinese) ELSE it.audio

\* findNotes with the query "<chinese_field>:<chinese_text>"
findNotes(ns, chinese_text) == {n \in 1..Len(ns) : ns[n].chinese = chinese_text}

\* find_existing_note_by_content comparing the english texts without strip()
find_existing_note_by_content_nostrip(ns, chinese_text, english_text) ==
  LET hits == {n \in findNotes(ns, chinese_text) : ns[n].english = english_text}
  IN  IF hits = {} THEN {0} ELSE hits

\* find_existing_note_by_content: the ids it may return (0 for None); the order in
\* which the store lists the notes is the store's choice
find_existing_note_by_content(ns, chinese_text, english_text) ==
  LET hits == {n \in findNotes(ns, chinese_text) :
                 Strip(ns[n].english) = Strip(english_text)}
  IN  IF hits = {} THEN {0} ELSE hits

\* the fields dictionary of update_or_create_card
FieldsOf(card_id, it, fname) ==
  [ID |-> card_id, chinese |-> it.chinese, english |-> it.english, sound |-> fname,
   tags |-> it.tags]

\* the audio stage forgetting line 265
WithAudio_unset(it, i) == it

\* the item after the audio stage succeeded (line 265)
WithAudio(it, i) == [it EXCEPT !.audio = FnameOf(it, i)]

\* storeMediaFile losing the file
Stored_lost(m, it, fname) == m

\* the remote media folder after the audio stage of a real run succeeded:
\* store_media_bytes_to_anki(fname, data) when the record needed audio
Stored(m, it, fname) == IF needs_audio(it) THEN m \cup {fname} ELSE m

\* calls issued by a successful audio stage of a real run
AudioCalls(c, it) ==
  IF needs_audio(it) THEN [c EXCEPT !.tts = @ + 1, !.store = @ + 1] ELSE c

\* the dry flag ignored
ContactsStore_always(d) == TRUE

\* "if dry: ... else: <call the remote store>" (lines 256-263 and 280-293)
ContactsStore(d) == ~d

\* "break" in place of "continue"
Continue_break(i, n) == n + 1

\* "continue": the loop goes on with the record after position i of n
Continue(i, n) == i + 1

\* lines 230-232
SkipItem ==
  /\ pc = "loop" /\ idx <= Len(items)
  /\ items[idx].chinese = ""
  /\ outcome' = [outcome EXCEPT ![idx] = "skip"]
  /\ idx' = Continue(idx, Len(items))
  /\ UNCHANGED <<fs, tmpMp3, notes, media, pc, run, lastRun, env, dry, items, provenance, updated,
                 processed, wb, faults, slept, calls, ioLog, preFs, preRemote, loaded, status, prev>>

\* lines 237-250: the TTS call raises
TtsFail ==
  /\ pc = "loop" /\ idx <= Len(items)
  /\ items[idx].chinese # "" /\ needs_audio(items[idx])
  /\ faults < MaxFaults
  /\ faults' = faults + 1
  /\ calls' = [calls EXCEPT !.tts = @ + 1]
  /\ outcome' = [outcome EXCEPT ![idx] = "ttsfail"]
  /\ idx' = Continue(idx, Len(items))
  /\ UNCHANGED <<fs, tmpMp3, notes, media, pc, run, lastRun, env, dry, items, provenance, updated,
                 processed, wb, slept, ioLog, preFs, preRemote, loaded, status, prev>>

\* lines 252-263: storeMediaFile raises
StoreFail ==
  /\ pc = "loop" /\ idx <= Len(items)
  /\ items[idx].chinese # "" /\ needs_audio(items[idx]) /\ ContactsStore(dry)
  /\ faults < MaxFaults
  /\ faults' = faults + 1
  /\ tmpMp3' = tmpMp3 \cup {FnameOf(items[idx], idx)}
  /\ calls' = [calls EXCEPT !.tts = @ + 1, !.store = @ + 1]
  /\ outcome' = [outcome EXCEPT ![idx] = "storefail"]
  /\ idx' = Continue(idx, Len(items))
  /\ UNCHANGED <<fs, notes, media, pc, run, lastRun, env, dry, items, provenance, updated,
                 processed, wb, slept, ioLog, preFs, preRemote, loaded, status, prev>>

\* lines 284-293: a call of update_or_create_card raises (findNotes, notesInfo,
\* updateNote or addNote); the audio stage before it succeeded
LinkFail ==
  /\ pc = "loop" /\ idx <= Len(items)
  /\ items[idx].chinese # "" /\ ContactsStore(dry)
  /\ faults < MaxFaults
  /\ faults' = faults + 1
  /\ LET it == items[idx]
         fname == FnameOf(it, idx)
         c1 == AudioCalls(calls, it)
         hits == findNotes(notes, it.chinese)
         c2 == [c1 EXCEPT !.find = @ + 1]
         c3 == IF hits = {} THEN c2 ELSE [c2 EXCEPT !.info = @ + 1]
     IN  /\ tmpMp3' = IF needs_audio(it) THEN tmpMp3 \cup {fname} ELSE tmpMp3
         /\ media' = Stored(media, it, fname)
         /\ items' = [items EXCEPT ![idx] = WithAudio(it, idx)]
         /\ \/ calls' = c2
            \/ hits # {} /\ calls' = c3
            \/ \E nid \in find_existing_note_by_content(notes, it.chinese, it.english) :
                 calls' = IF nid # 0 THEN [c3 EXCEPT !.upd = @ + 1]
                          ELSE [c3 EXCEPT !.add = @ + 1]
  /\ outcome' = [outcome EXCEPT ![idx] = "linkfail"]
  /\ idx' = Continue(idx, Len(items))
  /\ UNCHANGED <<fs, notes, pc, run, lastRun, env, dry, provenance, updated,
                 processed, wb, slept, ioLog, preFs, preRemote, loaded, status, prev>>

\* lines 230-297 of a real run, every call succeeding
LinkOk ==
  /\ pc = "loop" /\ idx <= Len(items)
  /\ items[idx].chinese # "" /\ ContactsStore(dry)
  /\ LET it == items[idx]
         fname == FnameOf(it, idx)
         card_id == item_id(it, idx)
         c1 == AudioCalls(calls, it)
         hits == findNotes(notes, it.chinese)
         c2 == [c1 EXCEPT !.find = @ + 1]
         c3 == IF hits = {} THEN c2 ELSE [c2 EXCEPT !.info = @ + 1]
     IN  /\ tmpMp3' = IF needs_audio(it) THEN tmpMp3 \cup {fname} ELSE tmpMp3
         /\ media' = Stored(media, it, fname)
         /\ \E nid \in find_existing_note_by_content(notes, it.chinese, it.english) :
              IF nid # 0
              THEN /\ notes' = [notes EXCEPT ![nid] = FieldsOf(card_id, it, fname)]
                   /\ calls' = [c3 EXCEPT !.upd = @ + 1]
                   /\ items' = [items EXCEPT ![idx] =
                                  [WithAudio(it, idx) EXCEPT !.note = RealNote(nid)]]
                   /\ outcome' = [outcome EXCEPT ![idx] = "updated"]
              ELSE /\ notes' = Append(notes, FieldsOf(card_id, it, fname))
                   /\ calls' = [c3 EXCEPT !.add = @ + 1]
                   /\ items' = [items EXCEPT ![idx] =
                                  [WithAudio(it, idx) EXCEPT !.note = RealNote(Len(notes) + 1)]]
                   /\ outcome' = [outcome EXCEPT ![idx] = "created"]
  /\ updated' = TRUE
  /\ slept' = [slept EXCEPT ![idx] = @ + 1]
  /\ idx' = idx + 1
  /\ UNCHANGED <<fs, pc, run, lastRun, env, dry, provenance, processed, wb, faults, ioLog, preFs,
                 preRemote, loaded, status, prev>>

\* lines 230-297 of a dry run, the TTS call (if any) succeeding
DryItem ==
  /\ pc = "loop" /\ idx <= Len(items)
  /\ items[idx].chinese # "" /\ ~ContactsStore(dry)
  /\ LET it == items[idx]
         fname == FnameOf(it, idx)
     IN  /\ tmpMp3' = IF needs_audio(it) THEN tmpMp3 \cup {fname} ELSE tmpMp3
         /\ calls' = IF needs_audio(it) THEN [calls EXCEPT !.tts = @ + 1] ELSE calls
         /\ items' = [items EXCEPT ![idx] =
                        [WithAudio(it, idx) EXCEPT !.note = DryNote(item_id(it, idx))]]
  /\ outcome' = [outcome EXCEPT ![idx] = "dry"]
  /\ updated' = TRUE
  /\ slept' = [slept EXCEPT ![idx] = @ + 1]
  /\ idx' = idx + 1
  /\ UNCHANGED <<fs, notes, media, pc, run, lastRun, env, dry, provenance, processed, wb, faults,
                 ioLog, preFs, preRemote, loaded, status, prev>>

\* ---------------------------------------------------------------- saving
Bak(p) == with_suffix(p, ".bak")
Dryrun(p) == with_suffix(p, ".dryrun")

\* the finally block of main: temp_combined is unlinked if it exists
Unlinked(f) == [f EXCEPT ![TempCombined] = Absent]

\* process_items lines 299-312, main line 379
SaveItems ==
  /\ pc = "loop" /\ idx > Len(items)
  /\ LET f1 == IF updated /\ ~dry
               THEN [fs EXCEPT ![Bak(TempCombined)] = fs[TempCombined],
                               ![TempCombined] = ListFile(items)]
               ELSE IF updated /\ dry
               THEN [fs EXCEPT ![Dryrun(TempCombined)] = ListFile(items)]
               ELSE fs
     IN  /\ fs' = f1
         /\ processed' = f1[TempCombined].data
         /\ ioLog' = IF updated /\ ~dry
                      THEN ioLog \o <<<<"rename", TempCombined>>, <<"write", TempCombined>>>>
                      ELSE IF updated /\ dry
                      THEN Append(ioLog, <<"write", Dryrun(TempCombined)>>)
                      ELSE ioLog
  /\ pc' = "writeback" /\ wb' = 1
  /\ UNCHANGED <<tmpMp3, notes, media, run, lastRun, env, dry, items, provenance, idx, updated, faults,
                 outcome, slept, calls, preFs, preRemote, loaded, status, prev>>

\* process_items lines 299-310: the rename or the write raises; main's finally
\* block runs and the exception leaves main
SaveFail ==
  /\ pc = "loop" /\ idx > Len(items)
  /\ updated
  /\ faults < MaxFaults
  /\ faults' = faults + 1
  /\ \/ /\ ~dry      \* rename raises
        /\ fs' = Unlinked(fs)
        /\ ioLog' = ioLog
     \/ /\ ~dry      \* open or json.dump raises after the rename
        /\ fs' = Unlinked([fs EXCEPT ![Bak(TempCombined)] = fs[TempCombined]])
        /\ ioLog' = Append(ioLog, <<"rename", TempCombined>>)
     \/ /\ dry       \* open or json.dump raises
        /\ \E c \in {fs[Dryrun(TempCombined)], Truncated} :
             fs' = Unlinked([fs EXCEPT ![Dryrun(TempCombined)] = c])
        /\ ioLog' = ioLog
  /\ pc' = "idle" /\ status' = "error"
  /\ UNCHANGED <<tmpMp3, notes, media, run, lastRun, env, dry, items, provenance, idx, updated,
                 processed, wb, outcome, slept, calls, preFs, preRemote, loaded, prev>>

\* write_back_results: one pass of the loop over provenance
WriteBack ==
  /\ pc = "writeback" /\ wb <= Len(provenance)
  /\ LET start == provenance[wb][2]
         end == provenance[wb][3]
         piece == Slice(processed, start, end)
         p == OutPath
         out == IF dry THEN Dryrun(p) ELSE p
         moved == ~dry /\ fs[p].kind # "absent"
         f1 == IF moved THEN [fs EXCEPT ![Bak(p)] = fs[p], ![p] = Absent] ELSE fs
     IN  /\ fs' = [f1 EXCEPT ![out] = ListFile(piece)]
         /\ ioLog' = (IF moved THEN Append(ioLog, <<"rename", p>>) ELSE ioLog)
                        \o <<<<"write", out>>>>
  /\ wb' = wb + 1
  /\ UNCHANGED <<tmpMp3, notes, media, pc, run, lastRun, env, dry, items, provenance, idx, updated,
                 processed, faults, outcome, slept, calls, preFs, preRemote, loaded, status, prev>>

\* write_back_results: the rename or the write raises; the loop is left, main's
\* finally block runs and the exception leaves main
WriteBackFail ==
  /\ pc = "writeback" /\ wb <= Len(provenance)
  /\ faults < MaxFaults
  /\ faults' = faults + 1
  /\ LET p == OutPath
         out == IF dry THEN Dryrun(p) ELSE p
         moved == ~dry /\ fs[p].kind # "absent"
         f1 == IF moved THEN [fs EXCEPT ![Bak(p)] = fs[p], ![p] = Absent] ELSE fs
     IN  \/ /\ moved       \* rename raises
            /\ fs' = Unlinked(fs)
            /\ ioLog' = ioLog
         \/ /\ \E c \in {f1[out], Truncated} :   \* open or json.dump raises
                 fs' = Unlinked([f1 EXCEPT ![out] = c])
            /\ ioLog' = IF moved THEN Append(ioLog, <<"rename", p>>) ELSE ioLog
  /\ pc' = "idle" /\ status' = "error"
  /\ UNCHANGED <<tmpMp3, notes, media, run, lastRun, env, dry, items, provenance, idx, updated,
                 processed, wb, outcome, slept, calls, preFs, preRemote, loaded, prev>>

\* write_back_results returns; main's finally block
Finish ==
  /\ pc = "writeback" /\ wb > Len(provenance)
  /\ fs' = Unlinked(fs)
  /\ pc' = "idle" /\ status' = "ok"
  /\ UNCHANGED <<tmpMp3, notes, media, run, lastRun, env, dry, items, provenance, idx, updated,
                 processed, wb, faults, outcome, slept, calls, ioLog, preFs, preRemote, loaded, prev>>

\* ================================================================ claims
RunEnded == run > 0 /\ pc = "idle"
LoopOver == run > 0 /\ (pc # "loop" \/ idx > Len(items))
Failed == {"ttsfail", "storefail", "linkfail"}
Linked == {"created", "updated", "dry"}
InitialItems == DefaultTagsOf(loaded)
Done(it) == it.audio # NoAudio /\ it.note # NoNote
ProvSlice(s, k) == Slice(s, provenance[k][2], provenance[k][3])
IsBackup(p) == p[1] \in {"in.bak", "combined.bak", "out.bak"}

\* ---- C1
PrevAllDone ==
  /\ prev.ran /\ ~prev.dry /\ prev.status = "ok" /\ Len(prev.outcome) > 0
  /\ \A i \in 1..Len(prev.outcome) : prev.outcome[i] \in {"created", "updated"}

\* C1: after a real run in which every record completed, the next run issues no TTS
\* call, no storeMediaFile, no addNote and no updateNote, and skips every record.
C1_SecondRunIsNoOp ==
  PrevAllDone =>
    /\ calls.tts = 0 /\ calls.store = 0 /\ calls.add = 0 /\ calls.upd = 0
    /\ LoopOver => \A i \in 1..Len(outcome) : outcome[i] = "skip"

\* ---- C2
Neighbours(K) == {K - 1, K + 1} \cap (1..Len(items))

\* C2 as stated: when TTS fails for record K, K keeps no audio_filename and gets no
\* remote id, and each neighbour whose external calls all succeed ends the loop with
\* audio_filename and remote id set.
C2_NeighboursDone ==
  LoopOver =>
    \A K \in 1..Len(items) :
      outcome[K] = "ttsfail" =>
        /\ items[K].audio = NoAudio
        /\ items[K].note = InitialItems[K].note
        /\ \A j \in Neighbours(K) : outcome[j] \notin Failed => Done(items[j])

\* C2 amended: the same for each neighbour that has a chinese text (a record without
\* one is skipped and stays as it was).
C2_NeighboursWithTextDone ==
  LoopOver =>
    \A K \in 1..Len(items) :
      outcome[K] = "ttsfail" =>
        /\ items[K].audio = NoAudio
        /\ items[K].note = InitialItems[K].note
        /\ \A j \in Neighbours(K) :
             (items[j].chinese # "" /\ outcome[j] \notin Failed) => Done(items[j])

C2_Witness ==
  /\ LoopOver /\ Len(items) = 3 /\ outcome[2] = "ttsfail"
  /\ \A j \in {1, 3} : /\ InitialItems[j].audio = NoAudio
                       /\ outcome[j] \in Linked /\ Done(items[j])

\* ---- C3
SameContent(a, b) == a.chinese = b.chinese /\ Strip(a.english) = Strip(b.english)
NotesLike(it) == {n \in 1..Len(notes) : SameContent(notes[n], it)}

\* C3: in a real run, when a record created a note and a later record of the run with
\* the same chinese and (trimmed) english text gets through its linkage step, the
\* later record updated that note and carries its id; the store holds one such note.
C3_SecondReusesNote ==
  (run > 0 /\ ~dry) =>
    \A i \in 1..Len(items) : \A j \in 1..Len(items) :
      (i < j /\ SameContent(items[i], items[j]) /\ outcome[i] = "created") =>
        /\ Cardinality(NotesLike(items[i])) = 1
        /\ outcome[j] \in {"created", "updated"} =>
             (outcome[j] = "updated" /\ items[j].note = items[i].note)

C3_Witness ==
  /\ run > 0 /\ ~dry /\ Len(items) >= 2
  /\ SameContent(items[1], items[2]) /\ items[1].english # items[2].english
  /\ outcome[1] = "created" /\ outcome[2] = "updated"
  /\ items[2].note = items[1].note

\* ---- C4
\* C4: after a real run that changed records of an input file, the .bak sibling of
\* that file holds the file's content from before the run.
C4_BackupOfInput ==
  (RunEnded /\ ~dry /\ updated) =>
    \A k \in 1..Len(provenance) :
      ProvSlice(items, k) # ProvSlice(loaded, k) =>
        fs[Bak(provenance[k][1])] = preFs[provenance[k][1]]

\* ---- C5
\* C5: the provenance ranges are contiguous, start at 0, end at the length of the
\* merged list and name the input files in order, and the slice of the merged list
\* by the k-th range is the content of the k-th file.
C5_ProvenanceRoundTrip ==
  run > 0 =>
    LET files == GlobSorted(preFs)
    IN  /\ Len(provenance) = Len(files)
        /\ \A k \in 1..Len(provenance) :
             /\ provenance[k][1] = files[k]
             /\ provenance[k][2] = (IF k = 1 THEN 0 ELSE provenance[k - 1][3])
             /\ provenance[k][2] <= provenance[k][3]
             /\ ProvSlice(loaded, k) = preFs[files[k]].data
        /\ Len(loaded) = (IF Len(provenance) = 0 THEN 0
                          ELSE provenance[Len(provenance)][3])

C5_Witness ==
  /\ run > 0 /\ Len(provenance) = 2 /\ Len(loaded) = 3
  /\ provenance[1][3] = 1
  /\ loaded[1] # loaded[2] /\ loaded[2] # loaded[3]

\* the same with an empty first file
C5_WitnessEmptyFile ==
  /\ run > 0 /\ Len(provenance) = 2 /\ Len(loaded) = 2
  /\ provenance[1][3] = 0

\* ---- C6
\* C6: a dry run issues no storeMediaFile, addNote or updateNote and leaves the remote
\* store as it was; every record that got past the audio stage carries the
\* placeholder id dry_run_<item id>.
C6_DryRunNoRemoteMutation ==
  (run > 0 /\ dry) =>
    /\ calls.store = 0 /\ calls.add = 0 /\ calls.upd = 0
    /\ notes = preRemote.notes /\ media = preRemote.media
    /\ \A i \in 1..Len(items) :
         outcome[i] \notin {"pending", "skip", "ttsfail"} =>
           items[i].note = DryNote(item_id(InitialItems[i], i))

C6_Witness ==
  /\ RunEnded /\ dry /\ status = "ok" /\ Len(items) >= 2
  /\ calls.tts > 0
  /\ items[1].note = DryNote("s1") /\ items[2].note = DryNote("idx1")

\* ---- C7
\* C7: after a real run that changed a record and ended normally, every input file
\* holds its provenance slice of the updated list.
C7_InputsHoldUpdatedSlices ==
  (RunEnded /\ ~dry /\ updated /\ status = "ok") =>
    \A k \in 1..Len(provenance) :
      fs[provenance[k][1]] = ListFile(ProvSlice(items, k))

\* ---- C8
\* C8: after a dry run that changed a record and ended normally, the .dryrun sibling
\* of every input file holds the result, and every input file and every backup file
\* is as it was before the run.
C8_DryRunWritesOnlySiblings ==
  (RunEnded /\ dry /\ updated /\ status = "ok") =>
    /\ \A k \in 1..Len(provenance) :
         fs[Dryrun(provenance[k][1])] = ListFile(ProvSlice(items, k))
    /\ \A p \in Paths : (p[1] = "in" \/ IsBackup(p)) => fs[p] = preFs[p]

\* ---- C9
\* C9: the loop position is always just past the records attempted so far, so a
\* failed record is followed by an attempt at every later record; a failed record
\* shows only the steps before the failure; the run is aborted only after the loop.
C9_FailureNeverAborts ==
  run > 0 =>
    /\ \A i \in 1..Len(items) : (outcome[i] # "pending") <=> (i < idx)
    /\ LoopOver => \A i \in 1..Len(items) : outcome[i] # "pending"
    /\ status = "error" => LoopOver
    /\ \A i \in 1..Len(items) :
         /\ outcome[i] \in {"ttsfail", "storefail"} => items[i] = InitialItems[i]
         /\ outcome[i] = "linkfail" =>
              /\ items[i].note = InitialItems[i].note
              /\ items[i].audio = FnameOf(InitialItems[i], i)

C9_Witness ==
  /\ RunEnded /\ status = "ok" /\ Len(items) = 3
  /\ outcome[1] \in Failed /\ outcome[2] \in Linked /\ outcome[3] \in Linked

\* ---- C10
\* C10: a run that changed no record did no rename and no write in its save and
\* write-back steps.
C10_NoChangeNoIo ==
  (RunEnded /\ ~updated) => ioLog = <<>>

\* ---- C11
SetupBroken ==
  \/ env.config \in {"absent", "nokeys"}
  \/ ~env.dir
  \/ \E k \in 1..MaxFiles : fs[InPath(k)].kind = "notlist"

\* C11: a run whose setup fails (config.yml missing or without a required key, input
\* directory missing, an input file that is no list) ends in the setup error with
\* every file as it was, the temp directory not cleaned, no record loaded or touched
\* and no external call made.
C11_SetupFailureTouchesNothing ==
  (run > 0 /\ SetupBroken) =>
    /\ status = "setup_error" /\ pc = "idle"
    /\ fs = preFs
    /\ items = <<>> /\ outcome = <<>> /\ calls = NoCalls /\ ioLog = <<>>
    /\ notes = preRemote.notes /\ media = preRemote.media

C11_Witness ==
  /\ run > 0 /\ status = "setup_error"
  /\ env.config = "ok" /\ env.dir
  /\ fs[InPath(1)].kind = "list" /\ Len(fs[InPath(1)].data) > 0
  /\ fs[InPath(2)].kind = "notlist"
  /\ fs[OutPath].kind = "list"

\* ---- C12
\* C12 as stated: in every run, real or dry, a record that came without
\* audio_filename carries one only if the upload of its audio succeeded (the file is
\* in the remote media folder and the record got to the linkage step); a record whose
\* synthesis or upload failed or never happened carries none.
C12_AudioOnlyAfterUpload ==
  run > 0 =>
    \A i \in 1..Len(items) :
      InitialItems[i].audio = NoAudio =>
        /\ items[i].audio # NoAudio =>
             (items[i].audio \in media /\ outcome[i] \in {"linkfail", "created", "updated"})
        /\ outcome[i] \in {"pending", "skip", "ttsfail", "storefail"} =>
             items[i].audio = NoAudio

\* C12 amended: the same in every real (non-dry) run.
C12_AudioOnlyAfterUploadReal ==
  (run > 0 /\ ~dry) =>
    \A i \in 1..Len(items) :
      InitialItems[i].audio = NoAudio =>
        /\ items[i].audio # NoAudio =>
             (items[i].audio \in media /\ outcome[i] \in {"linkfail", "created", "updated"})
        /\ outcome[i] \in {"pending", "skip", "ttsfail", "storefail"} =>
             items[i].audio = NoAudio

C12_Witness ==
  /\ RunEnded /\ ~dry /\ Len(items) = 3
  /\ \A i \in 1..3 : InitialItems[i].audio = NoAudio
  /\ outcome[1] = "storefail" /\ items[1].audio = NoAudio
  /\ outcome[2] = "created" /\ items[2].audio \in media
  /\ outcome[3] = "skip"

\* ---- C13
\* C13: when in a real run a record's audio was synthesized and uploaded and its note
\* create/update failed, the next run loads that record with audio_filename set and
\* no remote id, and issues no TTS call and no upload for it.
C13_LinkFailureResumes ==
  (prev.ran /\ ~prev.dry /\ prev.status = "ok" /\ status # "setup_error") =>
    \A i \in 1..Len(prev.outcome) :
      (prev.outcome[i] = "linkfail" /\ prev.loaded[i].audio = NoAudio) =>
        /\ loaded[i].audio = prev.items[i].audio
        /\ loaded[i].note = NoNote
        /\ outcome[i] \notin {"ttsfail", "storefail"}

\* ---- C14
NotesWithId(ns, id) == {n \in 1..Len(ns) : ns[n].ID = id}

\* C14: in a real run, a record whose id is the ID field of a note that the store
\* held when the run started, and that gets through its linkage step, updated such a
\* note and carries its id; the run added no note for it.
C14_LinkedByIdentifier ==
  (run > 0 /\ ~dry) =>
    \A i \in 1..Len(items) :
      LET byId == NotesWithId(preRemote.notes, item_id(InitialItems[i], i))
      IN  (byId # {} /\ outcome[i] \in {"created", "updated"}) =>
            /\ outcome[i] = "updated"
            /\ items[i].note \in {RealNote(n) : n \in byId}

\* ---- C15
\* C15: write_back_results is left only when every provenance entry was attempted: a
\* step that leaves it starts at the last entry or past it.
C15_WriteBackAttemptsAll ==
  [][(pc = "writeback" /\ pc' # "writeback") => wb >= Len(provenance)]_vars

\* ---- C16
\* C16: once the loop has handled a record, the delay was taken exactly once after it
\* unless the record was skipped, a record stopped at a failed step included, and never
\* after a skipped record.
C16_DelayAfterEachProcessed ==
  run > 0 =>
    \A i \in 1..Len(items) :
      outcome[i] # "pending" => slept[i] = (IF outcome[i] = "skip" THEN 0 ELSE 1)

\* ---- C17
WrittenDryrun ==
  {ioLog[j][2] : j \in {j \in 1..Len(ioLog) :
      ioLog[j][1] = "write" /\ ioLog[j][2][1] \in {"in.dryrun", "out.dryrun"}}}

\* C17: after a dry run that processed a record and ended normally, write-back wrote
\* a .dryrun output, and every record with chinese text in such an output carries the
\* placeholder note id of the run and an audio_filename.
C17_DryRunOutputMutated ==
  (RunEnded /\ dry /\ status = "ok" /\ \E i \in 1..Len(items) : outcome[i] = "dry") =>
    /\ WrittenDryrun # {}
    /\ \A p \in WrittenDryrun :
         /\ fs[p].kind = "list"
         /\ \A j \in 1..Len(fs[p].data) :
              LET r == fs[p].data[j]
              IN  r.chinese # "" => (r.note.kind = "dry" /\ r.audio # NoAudio)

\* ---- C18
Ident(it) == <<it.id, it.chinese, it.english, it.tags>>

SameShape(a, b) ==
  /\ Len(a) = Len(b)
  /\ \A i \in 1..Len(a) : Ident(a[i]) = Ident(b[i])

StaysSet(a, b) ==
  \A i \in 1..Len(a) :
    /\ a[i].audio # NoAudio => b[i].audio # NoAudio
    /\ a[i].note # NoNote => b[i].note # NoNote

\* C18: in every state of a run the record list has the length and the order of the
\* loaded list, and no step of the run clears an audio_filename or a note id that a
\* record had before the step.
C18_MonotonicShapePreserving ==
  /\ [](run > 0 => (SameShape(InitialItems, items) /\ StaysSet(InitialItems, items)))
  /\ [][run' = run => (SameShape(items, items') /\ StaysSet(items, items'))]_vars

C18_Witness ==
  /\ RunEnded /\ Len(items) = 3
  /\ Ident(items[1]) # Ident(items[2])
  /\ \E i \in 1..3 : Done(InitialItems[i]) /\ outcome[i] \in Linked
  /\ \E i \in 1..3 : outcome[i] = "linkfail" /\ items[i].audio # NoAudio
  /\ \E i \in 1..3 : ~Done(InitialItems[i]) /\ Done(items[i])

\* ---- C19
\* C19: in every state of a run, real or dry, a record that was loaded with a note id
\* carries that same note id.
C19_ExistingNoteIdKept ==
  run > 0 =>
    \A i \in 1..Len(items) :
      InitialItems[i].note # NoNote => items[i].note = InitialItems[i].note

\* ---- C20
NoTwins(ns) ==
  \A m \in 1..Len(ns) : \A n \in 1..Len(ns) : SameContent(ns[m], ns[n]) => m = n

\* C20: over real runs that start from an empty store, whatever the records and
\* whichever per-record steps fail, the store never holds two notes with the same
\* chinese text and the same trimmed english text.
C20_NoTwinNotes == NoTwins(notes)

C20_Witness ==
  /\ RunEnded /\ run = 2 /\ ~dry /\ Len(notes) = 2
  /\ \E i \in 1..Len(items) :
       /\ i <= Len(prev.outcome) /\ prev.outcome[i] = "linkfail"
       /\ SameContent(prev.items[i], items[i])
       /\ outcome[i] = "updated"
  /\ \E i \in 1..Len(items) : \E j \in 1..Len(items) :
       i # j /\ SameContent(items[i], items[j]) /\ items[i].english # items[j].english

Next ==
  \/ StartRun
  \/ SkipItem \/ TtsFail \/ StoreFail \/ LinkFail \/ LinkOk \/ DryItem
  \/ SaveItems \/ SaveFail
  \/ WriteBack \/ WriteBackFail
  \/ Finish

Spec == Init /\ [][Next]_vars

\* a single run over a single input file
SpecOneRun == InitOneRun /\ [][Next]_vars

\* loading only
SpecLoad == InitLoad /\ [][StartRun]_vars

\* the setup steps of main(), over good and bad setups
NextSetup == StartRun \/ SetupFail
SpecSetup == InitSetup /\ [][NextSetup]_vars

\* real runs over one input file from an empty collection
NextStore ==
  \/ StartRealRun
  \/ SkipItem \/ TtsFail \/ StoreFail \/ LinkFail \/ LinkOk
  \/ SaveItems \/ WriteBack \/ Finish
SpecStore == InitEmptyStore /\ [][NextStore]_vars
====
